---- MODULE Spec2Model ----
(***************************************************************************)
(* Model of icons/create_icons.py: the SVG builder create_svg_icon and the *)
(* module-level driver loop that writes icon16.svg, icon48.svg and         *)
(* icon128.svg and prints a status line.                                   *)
(*                                                                         *)
(* Text is modelled as TLA+ strings, character for character as the        *)
(* f-string templates of the source produce it, so that the properties     *)
(* below are decided by searching and parsing the generated markup.        *)
(***************************************************************************)
EXTENDS Integers, Sequences, FiniteSets, TLC

VARIABLES
    pc,       \* position of the module body: "for", "build", "open", "write",
              \* "exit", "print", "done" (module executed), "error" (uncaught OSError)
    i,        \* position of the for loop's iterator in the list of line 46
    ns,       \* module namespace: size, add_icon, svg_content, f once bound
    fs,       \* the working directory: file name -> content
    stdout,   \* lines printed so far
    ncalls,   \* number of create_svg_icon invocations made by the module body
    results   \* the value create_svg_icon returned last, with its arguments, and
              \* the one before it when that was for the same size

vars == <<pc, i, ns, fs, stdout, ncalls, results>>

----------------------------------------------------------------------------
(* Bounds of the model: the sizes an importer passes to create_svg_icon    *)
(* run from -NegSizes to MaxSize.                                          *)

NegSizes == 3
MaxSize == 131

(* Line 34: the smallest size that gets the snapshot badge.                *)
BadgeMin == 128


----------------------------------------------------------------------------
(* Python's str(int), as the f-string fields {size}, {size-40}, ... use it *)

Digit(d) == SubSeq("0123456789", d + 1, d + 1)

RECURSIVE NatStr(_)
NatStr(n) == IF n < 10 THEN Digit(n) ELSE NatStr(n \div 10) \o Digit(n % 10)

Str(n) == IF n < 0 THEN "-" \o NatStr(0 - n) ELSE NatStr(n)

----------------------------------------------------------------------------
(* create_svg_icon, lines 28-43                                            *)

(* line 30: the svg element's opening tag                                  *)
SvgOpen(size) ==
    "<svg width=\"" \o Str(size) \o "\" height=\"" \o Str(size)
        \o "\" xmlns=\"http://www.w3.org/2000/svg\">\n"

(* line 31: the background rectangle                                       *)
Background(size) ==
    "  <rect width=\"" \o Str(size) \o "\" height=\"" \o Str(size)
        \o "\" fill=\"#5436DA\"/>\n"

FontSize_Rounded(size) == (size + 1) \div 2

(* line 32: {size//2}; // is floor division, as \div is                    *)
FontSize(size) == size \div 2

(* line 32: the text label                                                 *)
Label(size) ==
    "  <text x=\"50%\" y=\"50%\" font-family=\"Arial, sans-serif\" font-size=\""
        \o Str(FontSize(size))
        \o "\" font-weight=\"bold\" fill=\"white\" text-anchor=\"middle\""
        \o " dominant-baseline=\"central\">RL4</text>\n"

IconBody_LabelTwice(size) ==
    SvgOpen(size) \o Label(size) \o Background(size) \o Label(size)

(* lines 30-33: svg = f"""...""" *)
IconBody(size) == SvgOpen(size) \o Background(size) \o Label(size)

AddsSnapshot_AnySize(size, add_snapshot) == add_snapshot

AddsSnapshot_LowThreshold(size, add_snapshot) == add_snapshot /\ size >= 16

(* line 34: the condition of the if statement                              *)
AddsSnapshot(size, add_snapshot) == add_snapshot /\ size >= BadgeMin

(* line 35: the square                                                     *)
BadgeSquare(size) ==
    "  <rect x=\"" \o Str(size - 40) \o "\" y=\"" \o Str(size - 40)
        \o "\" width=\"32\" height=\"32\" fill=\"none\" stroke=\"white\" stroke-width=\"2\"/>\n"

(* lines 36-38: one of the three lines, dy below the bottom edge           *)
BadgeLine(size, dy) ==
    "  <line x1=\"" \o Str(size - 36) \o "\" y1=\"" \o Str(size - dy)
        \o "\" x2=\"" \o Str(size - 8) \o "\" y2=\"" \o Str(size - dy)
        \o "\" stroke=\"white\" stroke-width=\"1\"/>\n"

BadgeLines_Two(size) == BadgeLine(size, 30) \o BadgeLine(size, 18)

(* lines 36-38                                                             *)
BadgeLines(size) == BadgeLine(size, 30) \o BadgeLine(size, 24) \o BadgeLine(size, 18)

BadgeCircle_Shifted(size) ==
    "  <circle cx=\"" \o Str(size - 24) \o "\" cy=\"" \o Str(size - 56)
        \o "\" r=\"8\" fill=\"none\" stroke=\"white\" stroke-width=\"2\"/>\n"

(* line 39: the circle                                                     *)
BadgeCircle(size) ==
    "  <circle cx=\"" \o Str(size - 24) \o "\" cy=\"" \o Str(size - 52)
        \o "\" r=\"8\" fill=\"none\" stroke=\"white\" stroke-width=\"2\"/>\n"

(* line 40: the triangle                                                   *)
BadgeTriangle(size) ==
    "  <polygon points=\"" \o Str(size - 24) \o "," \o Str(size - 60)
        \o " " \o Str(size - 28) \o "," \o Str(size - 56)
        \o " " \o Str(size - 20) \o "," \o Str(size - 56)
        \o "\" fill=\"white\"/>\n"

(* lines 35-41: the snapshot badge                                         *)
SnapshotBadge(size) ==
    BadgeSquare(size) \o BadgeLines(size) \o BadgeCircle(size) \o BadgeTriangle(size)

create_svg_icon_TrailingNewline(size, add_snapshot) ==
    LET svg0 == IconBody(size)
        svg1 == IF AddsSnapshot(size, add_snapshot)
                THEN svg0 \o SnapshotBadge(size)
                ELSE svg0
    IN  svg1 \o "</svg>\n"

(* lines 28-43                                                             *)
create_svg_icon(size, add_snapshot) ==
    LET svg0 == IconBody(size)
        svg1 == IF AddsSnapshot(size, add_snapshot)
                THEN svg0 \o SnapshotBadge(size)
                ELSE svg0
    IN  svg1 \o "</svg>"

----------------------------------------------------------------------------
(* The module body, lines 45-51                                            *)

Icons_NoBadge == << <<16, FALSE>>, <<48, FALSE>>, <<128, FALSE>> >>

(* line 46: the list the for loop iterates                                 *)
Icons == << <<16, FALSE>>, <<48, FALSE>>, <<128, TRUE>> >>

(* line 48: f'icon{size}.svg'                                              *)
FileName(size) == "icon" \o Str(size) \o ".svg"

Sizes == ((0 - NegSizes) .. MaxSize) \cup {Icons[k][1] : k \in 1 .. Len(Icons)}

IconNames == {FileName(Icons[k][1]) : k \in 1 .. Len(Icons)}

(* What a file of the working directory may hold before the script runs.   *)
OldContents == {"", "<svg/>"}

(* name = value in the module namespace                                    *)
Bind(space, name, value) ==
    [n \in (DOMAIN space) \cup {name} |-> IF n = name THEN value ELSE space[n]]

(* open(name, 'w') creates the file or truncates it                        *)
Truncate(dir, name) ==
    [n \in (DOMAIN dir) \cup {name} |-> IF n = name THEN "" ELSE dir[n]]

(* The caller's record of a returned value; the one before it is kept     *)
(* beside it when it was returned for the same size.                       *)
Returned(size, add_snapshot, out) ==
    LET r == [size |-> size, flag |-> add_snapshot, out |-> out]
    IN  IF results # <<>> /\ results[Len(results)].size = size
        THEN <<results[Len(results)], r>>
        ELSE <<r>>

Init ==
    /\ pc = "for"
    /\ i = 1
    /\ ns = <<>>
    /\ fs \in UNION {[D -> OldContents] : D \in SUBSET IconNames}
    /\ stdout = <<>>
    /\ ncalls = 0
    /\ results = <<>>

(* line 46: the next pair of the list is bound to size, add_icon           *)
ForNext ==
    /\ pc = "for"
    /\ i <= Len(Icons)
    /\ ns' = Bind(Bind(ns, "size", Icons[i][1]), "add_icon", Icons[i][2])
    /\ i' = i + 1
    /\ pc' = "build"
    /\ UNCHANGED <<fs, stdout, ncalls, results>>

(* line 46: the list is exhausted                                          *)
ForDone ==
    /\ pc = "for"
    /\ i > Len(Icons)
    /\ pc' = "print"
    /\ UNCHANGED <<i, ns, fs, stdout, ncalls, results>>

(* line 47: svg_content = create_svg_icon(size, add_icon)                  *)
Build ==
    /\ pc = "build"
    /\ LET out == create_svg_icon(ns["size"], ns["add_icon"])
       IN  /\ ns' = Bind(ns, "svg_content", out)
           /\ results' = Returned(ns["size"], ns["add_icon"], out)
    /\ ncalls' = ncalls + 1
    /\ pc' = "open"
    /\ UNCHANGED <<i, fs, stdout>>

(* line 48: with open(f'icon{size}.svg', 'w') as f                         *)
Open ==
    /\ pc = "open"
    /\ LET name == FileName(ns["size"])
       IN  /\ fs' = Truncate(fs, name)
           /\ ns' = Bind(ns, "f", [name |-> name, buf |-> "", closed |-> FALSE])
    /\ pc' = "write"
    /\ UNCHANGED <<i, stdout, ncalls, results>>

(* line 48: open raises OSError, which nothing catches                     *)
OpenFail ==
    /\ pc = "open"
    /\ pc' = "error"
    /\ UNCHANGED <<i, ns, fs, stdout, ncalls, results>>

(* line 49: f.write(svg_content) goes to the file object's buffer          *)
Write ==
    /\ pc = "write"
    /\ ns' = Bind(ns, "f", [ns["f"] EXCEPT !.buf = @ \o ns["svg_content"]])
    /\ pc' = "exit"
    /\ UNCHANGED <<i, fs, stdout, ncalls, results>>

Exit_LeftOpen ==
    /\ pc = "exit"
    /\ fs' = [fs EXCEPT ![ns["f"].name] = @ \o ns["f"].buf]
    /\ ns' = Bind(ns, "f", [ns["f"] EXCEPT !.buf = ""])
    /\ pc' = "for"
    /\ UNCHANGED <<i, stdout, ncalls, results>>

(* lines 48-49: leaving the with block closes f, which flushes the buffer  *)
Exit ==
    /\ pc = "exit"
    /\ fs' = [fs EXCEPT ![ns["f"].name] = @ \o ns["f"].buf]
    /\ ns' = Bind(ns, "f", [ns["f"] EXCEPT !.buf = "", !.closed = TRUE])
    /\ pc' = "for"
    /\ UNCHANGED <<i, stdout, ncalls, results>>

(* lines 48-49: the flush fails (disk full); f is closed all the same and  *)
(* the OSError is not caught                                               *)
ExitFail ==
    /\ pc = "exit"
    /\ ns' = Bind(ns, "f", [ns["f"] EXCEPT !.buf = "", !.closed = TRUE])
    /\ pc' = "error"
    /\ UNCHANGED <<i, fs, stdout, ncalls, results>>

(* line 51                                                                 *)
PrintStatus ==
    /\ pc = "print"
    /\ stdout' = Append(stdout, "SVG icons created. Converting to PNG...")
    /\ pc' = "done"
    /\ UNCHANGED <<i, ns, fs, ncalls, results>>

ImporterCall_SetsGlobal(s, b) ==
    /\ pc = "done"
    /\ results' = Returned(s, b, create_svg_icon(s, b))
    /\ ns' = Bind(ns, "svg_content", create_svg_icon(s, b))
    /\ UNCHANGED <<pc, i, fs, stdout, ncalls>>

(* lines 28-43: a caller that has imported the module calls the builder    *)
ImporterCall(s, b) ==
    /\ pc = "done"
    /\ results' = Returned(s, b, create_svg_icon(s, b))
    /\ UNCHANGED <<pc, i, ns, fs, stdout, ncalls>>

Driver ==
    \/ ForNext
    \/ ForDone
    \/ Build
    \/ Open
    \/ OpenFail
    \/ Write
    \/ Exit
    \/ ExitFail
    \/ PrintStatus

Next ==
    \/ Driver
    \/ \E s \in Sizes, b \in BOOLEAN : ImporterCall(s, b)

Spec == Init /\ [][Next]_vars

(* The interpreter executes the module body statement after statement.     *)
FairSpec == Spec /\ WF_vars(Driver)

----------------------------------------------------------------------------
(* Reading the generated markup back: substring search, elements,          *)
(* attribute values and decimal integers.                                  *)

Has(s, p, k) ==
    /\ k >= 1
    /\ k + Len(p) - 1 <= Len(s)
    /\ SubSeq(s, k, k + Len(p) - 1) = p

Occurrences(s, p) == {k \in 1 .. Len(s) : Has(s, p, k)}

Count(s, p) == Cardinality(Occurrences(s, p))

Contains(s, p) == \E k \in 1 .. Len(s) : Has(s, p, k)

EndsWith(s, p) == Has(s, p, Len(s) - Len(p) + 1)

(* the least position >= from at which p occurs in s, 0 if there is none   *)
FirstAt(s, p, from) ==
    LET S == {k \in from .. Len(s) : Has(s, p, k)}
    IN  IF S = {} THEN 0 ELSE CHOOSE k \in S : \A j \in S : k <= j

(* the element that opens at position k: from its "<" to its ">"           *)
ElementAt(s, k) == SubSeq(s, k, FirstAt(s, ">", k))

(* the elements with the given tag name, in document order                  *)
RECURSIVE ElementsFrom(_, _, _)
ElementsFrom(s, tag, from) ==
    LET k == FirstAt(s, "<" \o tag \o " ", from)
    IN  IF k = 0 THEN <<>> ELSE <<ElementAt(s, k)>> \o ElementsFrom(s, tag, k + 1)

Elements(s, tag) == ElementsFrom(s, tag, 1)

(* the value of attribute name in element e, "" if e has no such attribute *)
Attr(e, name) ==
    LET p == " " \o name \o "=\""
        k == FirstAt(e, p, 1)
        q == FirstAt(e, "\"", k + Len(p))
    IN  IF k = 0 \/ q = 0 THEN "" ELSE SubSeq(e, k + Len(p), q - 1)

IsDigit(c) == c \in {"0", "1", "2", "3", "4", "5", "6", "7", "8", "9"}

DigitVal(c) ==
    CASE c = "0" -> 0 [] c = "1" -> 1 [] c = "2" -> 2 [] c = "3" -> 3
      [] c = "4" -> 4 [] c = "5" -> 5 [] c = "6" -> 6 [] c = "7" -> 7
      [] c = "8" -> 8 [] c = "9" -> 9

(* an unsigned decimal numeral without a leading zero                      *)
IsNat(t) ==
    /\ Len(t) >= 1
    /\ \A k \in 1 .. Len(t) : IsDigit(SubSeq(t, k, k))
    /\ Len(t) > 1 => SubSeq(t, 1, 1) # "0"

RECURSIVE NatOf(_)
NatOf(t) ==
    IF Len(t) = 0 THEN 0
    ELSE 10 * NatOf(SubSeq(t, 1, Len(t) - 1)) + DigitVal(SubSeq(t, Len(t), Len(t)))

(* a decimal integer as Python prints it: an optional minus sign, no "-0"  *)
IsInt(t) ==
    IF Has(t, "-", 1)
    THEN IsNat(SubSeq(t, 2, Len(t))) /\ SubSeq(t, 2, Len(t)) # "0"
    ELSE IsNat(t)

IntOf(t) == IF Has(t, "-", 1) THEN 0 - NatOf(SubSeq(t, 2, Len(t))) ELSE NatOf(t)

(* attribute name of element e is the integer n                            *)
AttrIs(e, name, n) == IsInt(Attr(e, name)) /\ IntOf(Attr(e, name)) = n

(* the part of s before the first occurrence of p at or after from         *)
Upto(s, p, from) == SubSeq(s, from, FirstAt(s, p, from) - 1)

(* what is left of s from position k on                                    *)
Rest(s, k) == SubSeq(s, k, Len(s))

(* the parts of s between the occurrences of the one-character separator   *)
RECURSIVE Split(_, _)
Split(s, sep) ==
    LET k == FirstAt(s, sep, 1)
    IN  IF k = 0 THEN <<s>> ELSE <<SubSeq(s, 1, k - 1)>> \o Split(Rest(s, k + 1), sep)

(* the vertices of a polygon element, each a pair of numerals              *)
Points(e) ==
    LET ps == Split(Attr(e, "points"), " ")
    IN  [k \in DOMAIN ps |-> Split(ps[k], ",")]

PointIs(pt, x, y) ==
    /\ Len(pt) = 2
    /\ IsInt(pt[1]) /\ IntOf(pt[1]) = x
    /\ IsInt(pt[2]) /\ IntOf(pt[2]) = y

(* attribute name of element e is an integer of lo .. hi                   *)
AttrIn(e, name, lo, hi) ==
    /\ IsInt(Attr(e, name))
    /\ lo <= IntOf(Attr(e, name))
    /\ IntOf(Attr(e, name)) <= hi

----------------------------------------------------------------------------
(* The badge in a returned document                                        *)

UnfilledRects(out) == SelectSeq(Elements(out, "rect"), LAMBDA e : Attr(e, "fill") = "none")

BadgeWhole(out) ==
    /\ UnfilledRects(out) # <<>>
    /\ Contains(out, "<line ")
    /\ Contains(out, "<circle ")
    /\ Contains(out, "<polygon ")

BadgeAny(out) ==
    \/ UnfilledRects(out) # <<>>
    \/ Contains(out, "<line")
    \/ Contains(out, "<circle")
    \/ Contains(out, "<polygon")

----------------------------------------------------------------------------
(* C1: a document create_svg_icon returns holds the badge if and only if   *)
(* the flag was true and the size at least 128; below 128 the documents    *)
(* returned for the two values of the flag are the same string.            *)
C1_BadgeIff ==
    \A k \in DOMAIN results :
        LET r == results[k]
        IN  /\ (r.flag /\ r.size >= 128) => BadgeWhole(r.out)
            /\ ~(r.flag /\ r.size >= 128) => ~BadgeAny(r.out)
            /\ \A j \in DOMAIN results :
                   (results[j].size = r.size /\ r.size < 128)
                       => results[j].out = r.out

C1_Witness ==
    /\ Len(results) = 2
    /\ results[1].size = 16 /\ results[2].size = 16
    /\ results[1].flag /\ ~results[2].flag

(* C2: for a positive size the document starts with                        *)
(* <svg width="{size}" height="{size}" and ends with </svg>.               *)
C2_Envelope ==
    \A k \in DOMAIN results :
        LET r == results[k]
            p1 == "<svg width=\""
            w  == Upto(r.out, "\"", Len(p1) + 1)
            p2 == "\" height=\""
            a  == Len(p1) + Len(w) + 1
            h  == Upto(r.out, "\"", a + Len(p2))
        IN  r.size > 0 =>
              /\ Has(r.out, p1, 1)
              /\ IsInt(w) /\ IntOf(w) = r.size
              /\ Has(r.out, p2, a)
              /\ IsInt(h) /\ IntOf(h) = r.size
              /\ EndsWith(r.out, "</svg>")

C2_Witness ==
    /\ results # <<>>
    /\ results[Len(results)].size = 130
    /\ results[Len(results)].flag

(* C5: the document holds the text RL4 exactly once.                       *)
C5_OneLabel == \A k \in DOMAIN results : Count(results[k].out, "RL4") = 1

C5_Witness ==
    /\ Len(results) = 2
    /\ results[1].size = 131 /\ results[1].flag
    /\ results[2].size = 131 /\ ~results[2].flag

(* C6: the font-size attribute of the text element is the floor of         *)
(* size / 2: 24 for size 48, 8 for size 17.                                *)
C6_FontSize ==
    \A k \in DOMAIN results :
        LET r == results[k]
            t == Elements(r.out, "text")
        IN  /\ Len(t) = 1
            /\ IsInt(Attr(t[1], "font-size"))
            /\ 2 * IntOf(Attr(t[1], "font-size")) <= r.size
            /\ r.size < 2 * IntOf(Attr(t[1], "font-size")) + 2
            /\ r.size = 48 => Attr(t[1], "font-size") = "24"
            /\ r.size = 17 => Attr(t[1], "font-size") = "8"

C6_Witness ==
    /\ results # <<>>
    /\ results[Len(results)].size = 17
    /\ Contains(results[Len(results)].out, "font-size=\"8\"")

(* C3: create_svg_icon(128, True) holds one rect with fill="none", three   *)
(* line elements, one circle and one polygon; create_svg_icon(128, False)  *)
(* holds none of them.                                                     *)
C3_BadgeParts ==
    \A k \in DOMAIN results :
        LET r == results[k]
        IN  r.size = 128 =>
              /\ r.flag =>
                   /\ Len(UnfilledRects(r.out)) = 1
                   /\ Count(r.out, "<line") = 3
                   /\ Len(Elements(r.out, "line")) = 3
                   /\ Count(r.out, "<circle") = 1
                   /\ Len(Elements(r.out, "circle")) = 1
                   /\ Count(r.out, "<polygon") = 1
                   /\ Len(Elements(r.out, "polygon")) = 1
              /\ ~r.flag =>
                   /\ Len(UnfilledRects(r.out)) = 0
                   /\ Count(r.out, "<line") = 0
                   /\ Count(r.out, "<circle") = 0
                   /\ Count(r.out, "<polygon") = 0

C3_Witness ==
    /\ Len(results) = 2
    /\ results[1].size = 128 /\ results[1].flag
    /\ results[2].size = 128 /\ ~results[2].flag

(* C8: in a document with the badge, the square is at (size-40, size-40),  *)
(* the three lines run from x = size-36 to x = size-8 at y = size-30,      *)
(* size-24 and size-18, the circle is centred at (size-24, size-52), the   *)
(* triangle has the vertices (size-24, size-60), (size-28, size-56) and    *)
(* (size-20, size-56); every element is white; the stroke width is 2 for   *)
(* the square and the circle and 1 for each line.                          *)
C8_BadgeGeometry ==
    \A k \in DOMAIN results :
        LET r == results[k]
            n == r.size
            sq == UnfilledRects(r.out)
            ln == Elements(r.out, "line")
            ci == Elements(r.out, "circle")
            po == Elements(r.out, "polygon")
            dy == <<30, 24, 18>>
        IN  BadgeAny(r.out) =>
              /\ Len(sq) = 1
              /\ AttrIs(sq[1], "x", n - 40) /\ AttrIs(sq[1], "y", n - 40)
              /\ Attr(sq[1], "stroke") = "white"
              /\ Attr(sq[1], "stroke-width") = "2"
              /\ Len(ln) = 3
              /\ \A j \in 1 .. 3 :
                     /\ AttrIs(ln[j], "x1", n - 36) /\ AttrIs(ln[j], "x2", n - 8)
                     /\ AttrIs(ln[j], "y1", n - dy[j]) /\ AttrIs(ln[j], "y2", n - dy[j])
                     /\ Attr(ln[j], "stroke") = "white"
                     /\ Attr(ln[j], "stroke-width") = "1"
              /\ Len(ci) = 1
              /\ AttrIs(ci[1], "cx", n - 24) /\ AttrIs(ci[1], "cy", n - 52)
              /\ Attr(ci[1], "stroke") = "white"
              /\ Attr(ci[1], "stroke-width") = "2"
              /\ Len(po) = 1
              /\ Len(Points(po[1])) = 3
              /\ PointIs(Points(po[1])[1], n - 24, n - 60)
              /\ PointIs(Points(po[1])[2], n - 28, n - 56)
              /\ PointIs(Points(po[1])[3], n - 20, n - 56)
              /\ Attr(po[1], "fill") = "white"

C8_Witness ==
    /\ results # <<>>
    /\ results[Len(results)].size = 129
    /\ BadgeWhole(results[Len(results)].out)

(* C10: in a document with the badge, every badge element lies inside the  *)
(* size x size canvas: the square with its far edges, the lines, the       *)
(* circle with its radius and the triangle's vertices are all within       *)
(* 0 .. size; no coordinate is negative.                                   *)
C10_BadgeInCanvas ==
    \A k \in DOMAIN results :
        LET r == results[k]
            n == r.size
            sq == UnfilledRects(r.out)
            ln == Elements(r.out, "line")
            ci == Elements(r.out, "circle")
            po == Elements(r.out, "polygon")
        IN  BadgeAny(r.out) =>
              /\ \A j \in DOMAIN sq :
                     /\ AttrIn(sq[j], "x", 0, n) /\ AttrIn(sq[j], "y", 0, n)
                     /\ IsInt(Attr(sq[j], "width")) /\ IsInt(Attr(sq[j], "height"))
                     /\ IntOf(Attr(sq[j], "x")) + IntOf(Attr(sq[j], "width")) <= n
                     /\ IntOf(Attr(sq[j], "y")) + IntOf(Attr(sq[j], "height")) <= n
              /\ \A j \in DOMAIN ln :
                     /\ AttrIn(ln[j], "x1", 0, n) /\ AttrIn(ln[j], "x2", 0, n)
                     /\ AttrIn(ln[j], "y1", 0, n) /\ AttrIn(ln[j], "y2", 0, n)
              /\ \A j \in DOMAIN ci :
                     /\ IsInt(Attr(ci[j], "r"))
                     /\ AttrIn(ci[j], "cx", IntOf(Attr(ci[j], "r")), n - IntOf(Attr(ci[j], "r")))
                     /\ AttrIn(ci[j], "cy", IntOf(Attr(ci[j], "r")), n - IntOf(Attr(ci[j], "r")))
              /\ \A j \in DOMAIN po :
                     \A v \in DOMAIN Points(po[j]) :
                         LET pt == Points(po[j])[v]
                         IN  /\ Len(pt) = 2
                             /\ IsInt(pt[1]) /\ 0 <= IntOf(pt[1]) /\ IntOf(pt[1]) <= n
                             /\ IsInt(pt[2]) /\ 0 <= IntOf(pt[2]) /\ IntOf(pt[2]) <= n

C10_Witness ==
    /\ results # <<>>
    /\ results[Len(results)].size = 128
    /\ results[Len(results)].flag
    /\ Len(Elements(results[Len(results)].out, "polygon")) = 1
    /\ pc = "done"

C7_SameArgsSameOut ==
    /\ \A j, k \in DOMAIN results :
           (results[j].size = results[k].size /\ results[j].flag = results[k].flag)
               => results[j].out = results[k].out
    /\ ("svg_content" \in DOMAIN ns /\ pc # "build") =>
           \A k \in DOMAIN results :
               (results[k].size = ns["size"] /\ results[k].flag = ns["add_icon"])
                   => results[k].out = ns["svg_content"]

C7_CallChangesNothing ==
    (results' # results) =>
        /\ fs' = fs
        /\ stdout' = stdout
        /\ i' = i
        /\ DOMAIN ns' \subseteq (DOMAIN ns) \cup {"svg_content"}
        /\ \A n \in (DOMAIN ns) \ {"svg_content"} : n \in DOMAIN ns' /\ ns'[n] = ns[n]
        /\ pc = "done" => ns' = ns

C9_Order == <<"icon16.svg", "icon48.svg", "icon128.svg">>

C9_Content == <<create_svg_icon(16, FALSE), create_svg_icon(48, FALSE),
                create_svg_icon(128, TRUE)>>

C9_Written(k) ==
    /\ C9_Order[k] \in DOMAIN fs
    /\ fs[C9_Order[k]] = C9_Content[k]

C9_Safety ==
    /\ ncalls \in 0 .. 3
    /\ ("f" \in DOMAIN ns /\ ~ns["f"].closed) =>
           /\ ncalls >= 1
           /\ ns["f"].name = C9_Order[ncalls]
           /\ \A k \in 1 .. (ncalls - 1) : C9_Written(k)
    /\ (pc \in {"open", "build"} /\ "f" \in DOMAIN ns) => ns["f"].closed
    /\ pc = "open" => \A k \in 1 .. (ncalls - 1) : C9_Written(k)
    /\ stdout # <<>> =>
           /\ \A k \in 1 .. 3 : C9_Written(k)
           /\ ns["f"].closed
           /\ pc = "done"
    /\ pc = "done" =>
           /\ ncalls = 3
           /\ Len(stdout) = 1

C9_Steps ==
    /\ ncalls' \in {ncalls, ncalls + 1}
    /\ pc = "done" => pc' = "done"

C9_Sequential ==
    /\ [] C9_Safety
    /\ [][C9_Steps]_vars
    /\ <>(pc = "done" \/ pc = "error")

C9_Witness ==
    /\ pc = "done"
    /\ ncalls = 3
    /\ stdout = <<"SVG icons created. Converting to PNG...">>
    /\ results = <<>> \/ results[Len(results)].size = 128
    /\ ns["f"].name = "icon128.svg"
    /\ ns["f"].closed

====
